---- MODULE Spec2Model ----
(***************************************************************************)
(* A model of eutils.py: the interactive prompts (yes_no, pick_from_list,  *)
(* confirm_input, typed_input) and the JSON persistence helpers (dump,     *)
(* load).  A call runs until it blocks in input(), returns or raises; each *)
(* action is the code executed between two such points.  Text is a         *)
(* sequence of one-character strings, so that lower(), isnumeric() and     *)
(* int() are computed character by character.                              *)
(***************************************************************************)
EXTENDS Integers, Sequences, FiniteSets, TLC

VARIABLES
    call,      \* the top-level call in progress (function and arguments), or NoCall
    stack,     \* the frames blocked in input(), outermost first; <<>> when no call runs
    result,    \* how the top-level call ended: a return value or an exception
    fs,        \* the filesystem: a function from the existing paths to their content
    fs0,       \* the filesystem as it was when the call in progress started
    lastDump,  \* path and data of the most recent json.dump write, or NoDump
    ndumps,    \* number of dump calls made so far
    nread,     \* input lines consumed by the call in progress
    nout,      \* print() calls and input() prompts issued by the call in progress
    last,      \* the input line consumed most recently by the call in progress
    d,         \* the dict handed to dict_append and dict_remove: key -> list
    hist       \* the dict_append and dict_remove calls made on d, with their outcome

vars == <<call, stack, result, fs, fs0, lastDump, ndumps, nread, nout, last, d, hist>>

\* ----------------------------------------------------------------- bounds

MaxReads == 4     \* input lines one call may consume
MaxLen == 3       \* longest list handed to pick_from_list
MaxOld == 1       \* most "_old" suffixes on a path handed to dump or load
MaxDumps == 1     \* dump calls in one run

\* ------------------------------------------------------------------- text

Digits == <<"0", "1", "2", "3", "4", "5", "6", "7", "8", "9">>
\* Characters for which str.isnumeric() is true although int() rejects them.
NumericOnly == {"²"}
Upper == <<"Y", "E", "S", "N", "O">>
Lower == <<"y", "e", "s", "n", "o">>

IsDecimalChar(c) == \E i \in 1..Len(Digits) : Digits[i] = c
DigitValue(c) == (CHOOSE i \in 1..Len(Digits) : Digits[i] = c) - 1

LowerChar(c) ==
    IF \E i \in 1..Len(Upper) : Upper[i] = c
    THEN Lower[CHOOSE i \in 1..Len(Upper) : Upper[i] = c]
    ELSE c

\* str.lower()
lower(s) == [i \in 1..Len(s) |-> LowerChar(s[i])]

\* str.isnumeric(): non-empty and every character numeric
isnumeric(s) ==
    /\ Len(s) > 0
    /\ \A i \in 1..Len(s) : IsDecimalChar(s[i]) \/ s[i] \in NumericOnly

\* Whether int(s) succeeds on a text of this alphabet (no sign, blank or underscore).
IntParses(s) == Len(s) > 0 /\ \A i \in 1..Len(s) : IsDecimalChar(s[i])

RECURSIVE IntOf(_)
IntOf(s) ==
    IF Len(s) = 0 THEN 0
    ELSE 10 * IntOf(SubSeq(s, 1, Len(s) - 1)) + DigitValue(s[Len(s)])

\* str.replace(',', '.')
replace(s) == [i \in 1..Len(s) |-> IF s[i] = "," THEN "." ELSE s[i]]

\* The input lines a user may type.
Lines ==
    { <<>>, <<"0">>, <<"1">>, <<"2">>, <<"3">>, <<"0", "2">>, <<"9">>, <<"²">>,
      <<"x">>, <<"y">>, <<"Y", "e">>, <<"Y", "E", "S">>, <<"n">>, <<"N", "O">>,
      <<"1", ",", "5">>, <<"1", ".", "5">> }

\* ----------------------------------------------------------- Python values

NoneV == [ty |-> "NoneType", n |-> 0, s |-> <<>>, items |-> <<>>]
BoolV(b) == [ty |-> "bool", n |-> IF b THEN 1 ELSE 0, s |-> <<>>, items |-> <<>>]
IntV(i) == [ty |-> "int", n |-> i, s |-> <<>>, items |-> <<>>]
\* A float with one fractional digit, held in tenths.
FloatV(tenths) == [ty |-> "float", n |-> tenths, s |-> <<>>, items |-> <<>>]
\* float('nan'): a float that equals no number, itself included.
NaNV == [ty |-> "float", n |-> 0, s |-> <<"NaN">>, items |-> <<>>]
StrV(text) == [ty |-> "str", n |-> 0, s |-> text, items |-> <<>>]
ListV(xs) == [ty |-> "list", n |-> 0, s |-> <<>>, items |-> xs]
TupleV(xs) == [ty |-> "tuple", n |-> 0, s |-> <<>>, items |-> xs]
\* A dict is its key/value pairs in insertion order.
PairV(k, v) == [ty |-> "pair", n |-> 0, s |-> <<>>, items |-> <<k, v>>]
DictV(pairs) == [ty |-> "dict", n |-> 0, s |-> <<>>, items |-> pairs]

IsNumber(v) == v.ty \in {"bool", "int", "float"}
IsNaN(v) == v.ty = "float" /\ v.s # <<>>
NumberTenths(v) == IF v.ty = "float" THEN v.n ELSE 10 * v.n

\* bool(v)
Truthy(v) ==
    CASE v.ty = "NoneType" -> FALSE
      [] IsNumber(v) -> v.n # 0 \/ IsNaN(v)
      [] v.ty = "str" -> Len(v.s) > 0
      [] OTHER -> Len(v.items) > 0

\* a == b
RECURSIVE PyEq(_, _)
PyEq(a, b) ==
    CASE IsNumber(a) /\ IsNumber(b) ->
            ~IsNaN(a) /\ ~IsNaN(b) /\ NumberTenths(a) = NumberTenths(b)
      [] a.ty # b.ty -> FALSE
      [] a.ty = "str" -> a.s = b.s
      [] a.ty = "NoneType" -> TRUE
      [] a.ty = "dict" ->
            /\ Len(a.items) = Len(b.items)
            /\ \A i \in 1..Len(a.items) : \E j \in 1..Len(b.items) :
                  /\ PyEq(a.items[i].items[1], b.items[j].items[1])
                  /\ PyEq(a.items[i].items[2], b.items[j].items[2])
      [] OTHER ->
            /\ Len(a.items) = Len(b.items)
            /\ \A i \in 1..Len(a.items) : PyEq(a.items[i], b.items[i])

\* ---------------------------------------------- outcomes of a code segment

NoFrame == [fn |-> "none"]
\* The segment blocked in input(), having printed `out` times.
Block(frame, out) ==
    [kind |-> "block", frame |-> frame, val |-> NoneV, exc |-> "", out |-> out]
Return(v, out) ==
    [kind |-> "return", frame |-> NoFrame, val |-> v, exc |-> "", out |-> out]
Raise(e, out) ==
    [kind |-> "raise", frame |-> NoFrame, val |-> NoneV, exc |-> e, out |-> out]

NoCall == [fn |-> "none"]
NoResult == [kind |-> "none", val |-> NoneV, exc |-> ""]
ResultOf(o) == [kind |-> o.kind, val |-> o.val, exc |-> o.exc]

\* ----------------------------------------------------------------- yes_no

yes == {<<"y">>, <<"y", "e">>, <<"y", "e", "s">>}
no == {<<"n">>, <<"n", "o">>}

\* Up to the first input().
YesNoStart(default) ==
    Block([fn |-> "yes_no", pc |-> "L45", default |-> default], 1)

\* YesNoLine with the default tested for truth instead of for None.
YesNoLineTruthyDefault(frame, line) ==
    LET answer == lower(line) IN
    IF answer \in yes \cup no THEN Return(BoolV(answer \in yes), 0)
    ELSE IF Len(answer) = 0 /\ Truthy(frame.default) THEN Return(frame.default, 0)
    ELSE Block([frame EXCEPT !.pc = "L49"], 1)

\* From an input() returning `line` to the next input() or the return.
YesNoLine(frame, line) ==
    LET answer == lower(line) IN
    IF answer \in yes \cup no THEN Return(BoolV(answer \in yes), 0)
    ELSE IF Len(answer) = 0 /\ frame.default # NoneV THEN Return(frame.default, 0)
    ELSE Block([frame EXCEPT !.pc = "L49"], 1)

\* --------------------------------------------------------- pick_from_list

PickReturn(frame, choice) ==
    Return(IF frame.return_element THEN frame.l[choice + 1] ELSE IntV(choice), 0)

\* PickStart with the single-element shortcut taken before the default is checked.
PickStartShortcutFirst(l, default_index, return_element, auto_return_single_element) ==
    IF auto_return_single_element /\ Len(l) = 1
    THEN Return(IF return_element THEN l[1] ELSE IntV(0), 0)
    ELSE IF default_index # -1 /\ default_index \notin 0..(Len(l) - 1)
    THEN Raise("IndexError", 0)
    ELSE Block([fn |-> "pick_from_list", pc |-> "L82", l |-> l,
                default_index |-> default_index,
                return_element |-> return_element], 1 + Len(l) + 1)

\* PickStart with the shortcut taken whatever auto_return_single_element says.
PickStartShortcutAlways(l, default_index, return_element, auto_return_single_element) ==
    IF default_index # -1 /\ default_index \notin 0..(Len(l) - 1)
    THEN Raise("IndexError", 0)
    ELSE IF Len(l) = 1
    THEN Return(IF return_element THEN l[1] ELSE IntV(0), 0)
    ELSE Block([fn |-> "pick_from_list", pc |-> "L82", l |-> l,
                default_index |-> default_index,
                return_element |-> return_element], 1 + Len(l) + 1)

PickStart(l, default_index, return_element, auto_return_single_element) ==
    IF default_index # -1 /\ default_index \notin 0..(Len(l) - 1)
    THEN Raise("IndexError", 0)
    ELSE IF auto_return_single_element /\ Len(l) = 1
    THEN Return(IF return_element THEN l[1] ELSE IntV(0), 0)
    ELSE Block([fn |-> "pick_from_list", pc |-> "L82", l |-> l,
                default_index |-> default_index,
                return_element |-> return_element], 1 + Len(l) + 1)

PickLine(frame, answer) ==
    IF isnumeric(answer) /\ ~IntParses(answer) THEN Raise("ValueError", 0)
    ELSE IF isnumeric(answer) /\ IntOf(answer) \in 1..Len(frame.l)
    THEN PickReturn(frame, IntOf(answer) - 1)
    ELSE IF Len(answer) = 0 /\ frame.default_index # -1
    THEN PickReturn(frame, (frame.default_index + 1) - 1)
    ELSE Block([frame EXCEPT !.pc = "L87"], 1)

\* ------------------------------------------------------------ typed_input

Types == {"int", "float", "str"}
\* type(x): the class of a value, and the class of a class.
TypeOfValue(v) == v.ty
TypeOfClass(c) == "type"

DotAt(s) == {i \in 1..Len(s) : s[i] = "."}
\* Whether float(s) succeeds on a text of this alphabet; FloatV holds tenths, so
\* at most one fractional digit is read.
FloatParses(s) ==
    \/ IntParses(s)
    \/ /\ Cardinality(DotAt(s)) = 1
       /\ Len(s) > 1
       /\ \A i \in 1..Len(s) : IsDecimalChar(s[i]) \/ s[i] = "."
       /\ \A p \in DotAt(s) : Len(s) - p <= 1

FloatOf(s) ==
    IF DotAt(s) = {} THEN 10 * IntOf(s)
    ELSE LET p == CHOOSE i \in DotAt(s) : TRUE IN
         10 * IntOf(SubSeq(s, 1, p - 1)) + IntOf(SubSeq(s, p + 1, Len(s)))

\* Whether t(answer) returns rather than raising ValueError.
Converts(t, answer) ==
    CASE t = "int" -> IntParses(answer)
      [] t = "float" -> FloatParses(answer)
      [] OTHER -> TRUE

\* t(answer)
Convert(t, answer) ==
    CASE t = "int" -> IntV(IntOf(answer))
      [] t = "float" -> FloatV(FloatOf(answer))
      [] OTHER -> StrV(answer)

TypedStart(t, default) ==
    IF Truthy(default) /\ t # TypeOfValue(default)
    THEN Raise("AssertionError", 0)
    ELSE Block([fn |-> "typed_input", pc |-> "L118", t |-> t, default |-> default], 1)

\* One round of the while True loop.
TypedLoop(frame, answer) ==
    LET a == IF frame.t = TypeOfClass("float") THEN replace(answer) ELSE answer IN
    IF Converts(frame.t, a) THEN Return(Convert(frame.t, a), 0)
    ELSE Block([frame EXCEPT !.pc = "L125"], 1)

TypedLine(frame, answer) ==
    IF frame.pc = "L118" /\ Truthy(frame.default) /\ answer = <<>>
    THEN Return(frame.default, 0)
    ELSE TypedLoop(frame, answer)

\* ---------------------------------------------------------- confirm_input

ConfirmStart(default) ==
    Block([fn |-> "confirm_input", pc |-> "L101", default |-> default, res |-> <<>>], 1)

\* Whether the line read at L101 ends the call with the default.
ConfirmTakesDefault(frame, res) ==
    frame.pc = "L101" /\ Truthy(frame.default) /\ res = <<>>

\* ConfirmAfterYesNo with the loop condition inverted.
ConfirmAfterYesNoInverted(frame, answer) ==
    IF ~Truthy(answer) THEN Return(StrV(frame.res), 0)
    ELSE Block([frame EXCEPT !.pc = "L104"], 1)

\* What the caller does with yes_no's answer: return res, or ask again at L104.
ConfirmAfterYesNo(frame, answer) ==
    IF Truthy(answer) THEN Return(StrV(frame.res), 0)
    ELSE Block([frame EXCEPT !.pc = "L104"], 1)

\* ------------------------------------------------------------------- JSON

JNull == [jt |-> "null", n |-> 0, s |-> <<>>, items |-> <<>>]
JBool(b) == [jt |-> IF b THEN "true" ELSE "false", n |-> 0, s |-> <<>>, items |-> <<>>]
JInt(i) == [jt |-> "int", n |-> i, s |-> <<>>, items |-> <<>>]
JReal(tenths) == [jt |-> "real", n |-> tenths, s |-> <<>>, items |-> <<>>]
\* The literal NaN, which json.dump writes and json.load reads (allow_nan).
JNaN == [jt |-> "NaN", n |-> 0, s |-> <<>>, items |-> <<>>]
JString(text) == [jt |-> "string", n |-> 0, s |-> text, items |-> <<>>]
JArray(xs) == [jt |-> "array", n |-> 0, s |-> <<>>, items |-> xs]
\* An object is its members in document order; a member is a name and a value.
JMember(name, v) == [jt |-> "member", n |-> 0, s |-> name, items |-> <<v>>]
JObject(ms) == [jt |-> "object", n |-> 0, s |-> <<>>, items |-> ms]

\* str(n) for n >= 0
RECURSIVE IntToStr(_)
IntToStr(i) ==
    IF i < 10 THEN <<Digits[i + 1]>>
    ELSE IntToStr(i \div 10) \o <<Digits[(i % 10) + 1]>>

\* The member name json.dump writes for a dict key.
KeyName(k) ==
    CASE k.ty = "str" -> k.s
      [] k.ty = "int" -> IntToStr(k.n)
      [] k.ty = "bool" -> IF k.n = 1 THEN <<"t", "r", "u", "e">>
                          ELSE <<"f", "a", "l", "s", "e">>
      [] OTHER -> <<"n", "u", "l", "l">>

\* json.dump: the document written for a value.
RECURSIVE Encode(_)
Encode(v) ==
    CASE v.ty = "NoneType" -> JNull
      [] v.ty = "bool" -> JBool(v.n = 1)
      [] v.ty = "int" -> JInt(v.n)
      [] v.ty = "float" -> IF IsNaN(v) THEN JNaN ELSE JReal(v.n)
      [] v.ty = "str" -> JString(v.s)
      [] v.ty = "dict" ->
            JObject([i \in 1..Len(v.items) |->
                        JMember(KeyName(v.items[i].items[1]),
                                Encode(v.items[i].items[2]))])
      [] OTHER -> JArray([i \in 1..Len(v.items) |-> Encode(v.items[i])])

\* dict(pairs): a repeated name keeps its first position and its last value.
RECURSIVE SelectFirst(_, _)
SelectFirst(ms, i) ==
    IF i > Len(ms) THEN <<>>
    ELSE IF \E j \in 1..(i - 1) : ms[j].s = ms[i].s THEN SelectFirst(ms, i + 1)
    ELSE LET k == CHOOSE k \in i..Len(ms) :
                      /\ ms[k].s = ms[i].s
                      /\ \A m \in (k + 1)..Len(ms) : ms[m].s # ms[i].s
         IN <<ms[k]>> \o SelectFirst(ms, i + 1)

\* json.load: the value read from a document.
RECURSIVE Decode(_)
Decode(doc) ==
    CASE doc.jt = "null" -> NoneV
      [] doc.jt = "true" -> BoolV(TRUE)
      [] doc.jt = "false" -> BoolV(FALSE)
      [] doc.jt = "int" -> IntV(doc.n)
      [] doc.jt = "real" -> FloatV(doc.n)
      [] doc.jt = "NaN" -> NaNV
      [] doc.jt = "string" -> StrV(doc.s)
      [] doc.jt = "object" ->
            LET ms == SelectFirst(doc.items, 1) IN
            DictV([i \in 1..Len(ms) |-> PairV(StrV(ms[i].s), Decode(ms[i].items[1]))])
      [] OTHER -> ListV([i \in 1..Len(doc.items) |-> Decode(doc.items[i])])

\* ------------------------------------------------------------- filesystem

\* "f" followed by k conflict suffixes.
PathOf(k) == [i \in 1..(k + 1) |-> IF i = 1 THEN "f" ELSE "_old"]
Paths == {PathOf(k) : k \in 0..MaxOld}

\* os.path.exists(path)
exists(fsys, path) == path \in DOMAIN fsys

\* open(path, 'w') and the write of one document.
WriteFile(fsys, path, doc) ==
    [q \in DOMAIN fsys \cup {path} |-> IF q = path THEN doc ELSE fsys[q]]

\* os.rename(src, dst): dst is replaced when it exists.
rename(fsys, src, dst) ==
    [q \in (DOMAIN fsys \ {src}) \cup {dst} |-> IF q = dst THEN fsys[src] ELSE fsys[q]]

RECURSIVE rec_rename(_, _)
rec_rename(fsys, path) ==
    LET new_path == path \o <<"_old">>
        freed == IF exists(fsys, new_path) THEN rec_rename(fsys, new_path) ELSE fsys
    IN rename(freed, path, new_path)

\* ------------------------------------------------------------ dump and load

\* The values handed to dump: all of them JSON-serializable.
Values ==
    { NoneV, FloatV(15), NaNV, StrV(<<"a">>),
      ListV(<<ListV(<<IntV(1)>>), NoneV>>),
      TupleV(<<IntV(1)>>),
      DictV(<<PairV(StrV(<<"a">>), BoolV(FALSE))>>),
      DictV(<<PairV(IntV(1), NoneV), PairV(StrV(<<"1">>), BoolV(TRUE))>>) }

\* The entries of the conflict menu; each text is one opaque token.
Menu ==
    << StrV(<<"Append with '_old'">>), StrV(<<"Overwrite">>), StrV(<<"Do nothing">>) >>

NoDump == [path |-> <<>>, data |-> NoneV, written |-> FALSE]

\* DumpWrite with the path dumped in place of the data.
DumpWritePath(fsys, data, path) ==
    [fs |-> WriteFile(fsys, path, Encode(StrV(path))), wrote |-> TRUE]

\* The filesystem and whether json.dump ran, as [fs, wrote].
DumpWrite(fsys, data, path) ==
    [fs |-> WriteFile(fsys, path, Encode(data)), wrote |-> TRUE]

\* The if/elif chain on the menu's answer, then the write.
DumpAfterChoice(fsys, choice, data, path) ==
    IF PyEq(choice, IntV(0)) THEN DumpWrite(rec_rename(fsys, path), data, path)
    ELSE IF PyEq(choice, IntV(1)) THEN DumpWrite(fsys, data, path)
    ELSE IF PyEq(choice, IntV(2)) THEN [fs |-> fsys, wrote |-> FALSE]
    ELSE DumpWrite(fsys, data, path)

\* DumpAsks with the overwrite flag ignored.
DumpAsksAlways(fsys, path, overwrite) == exists(fsys, path)

\* Whether dump asks the user before writing.
DumpAsks(fsys, path, overwrite) == ~overwrite /\ exists(fsys, path)

\* load(path) on a filesystem.
LoadOutcome(fsys, path) ==
    IF exists(fsys, path) THEN Return(Decode(fsys[path]), 0)
    ELSE Raise("FileNotFoundError", 0)

\* ---------------------------------------------------------------- actions

Idle == call.fn = "none"
Done == call.fn # "none" /\ stack = <<>>
Top == stack[Len(stack)]
Blocked(fn) == stack # <<>> /\ Top.fn = fn /\ nread < MaxReads

\* The top-level call takes the outcome of its code segment.
Settle(o) ==
    /\ stack' = IF o.kind = "block" THEN <<o.frame>> ELSE <<>>
    /\ result' = IF o.kind = "block" THEN NoResult ELSE ResultOf(o)
    /\ nout' = nout + o.out

Consume(line) ==
    /\ nread' = nread + 1
    /\ last' = line

CallYesNo ==
    /\ Idle
    /\ \E default \in {NoneV, BoolV(TRUE), BoolV(FALSE)} :
          /\ call' = [fn |-> "yes_no", default |-> default]
          /\ Settle(YesNoStart(default))
    /\ UNCHANGED <<d, hist, fs, fs0, lastDump, ndumps, nread, last>>

YesNoInput ==
    /\ Len(stack) = 1 /\ Blocked("yes_no")
    /\ \E line \in Lines :
          /\ Settle(YesNoLine(Top, line))
          /\ Consume(line)
    /\ UNCHANGED <<d, hist, call, fs, fs0, lastDump, ndumps>>

\* A list of n distinct elements.
ListOf(n) == [i \in 1..n |-> IntV(100 + i)]

CallPick ==
    /\ Idle
    /\ \E n \in 0..MaxLen, default_index \in -2..MaxLen,
          return_element \in BOOLEAN, auto_return_single_element \in BOOLEAN :
          /\ call' = [fn |-> "pick_from_list", l |-> ListOf(n),
                      default_index |-> default_index,
                      return_element |-> return_element,
                      auto_return_single_element |-> auto_return_single_element]
          /\ Settle(PickStart(ListOf(n), default_index, return_element,
                              auto_return_single_element))
    /\ UNCHANGED <<d, hist, fs, fs0, lastDump, ndumps, nread, last>>

PickInput ==
    /\ Len(stack) = 1 /\ Blocked("pick_from_list")
    /\ \E line \in Lines :
          /\ Settle(PickLine(Top, line))
          /\ Consume(line)
    /\ UNCHANGED <<d, hist, call, fs, fs0, lastDump, ndumps>>

Defaults ==
    { NoneV, IntV(0), IntV(5), FloatV(0), FloatV(15), StrV(<<>>), StrV(<<"x">>) }

CallTyped ==
    /\ Idle
    /\ \E t \in Types, default \in Defaults :
          /\ call' = [fn |-> "typed_input", t |-> t, default |-> default]
          /\ Settle(TypedStart(t, default))
    /\ UNCHANGED <<d, hist, fs, fs0, lastDump, ndumps, nread, last>>

TypedInput ==
    /\ Len(stack) = 1 /\ Blocked("typed_input")
    /\ \E line \in Lines :
          /\ Settle(TypedLine(Top, line))
          /\ Consume(line)
    /\ UNCHANGED <<d, hist, call, fs, fs0, lastDump, ndumps>>

CallConfirm ==
    /\ Idle
    /\ \E default \in {NoneV, StrV(<<>>), StrV(<<"x">>)} :
          /\ call' = [fn |-> "confirm_input", default |-> default]
          /\ Settle(ConfirmStart(default))
    /\ UNCHANGED <<d, hist, fs, fs0, lastDump, ndumps, nread, last>>

\* A text line arrives at L101 or L104: the default is returned, or yes_no is called.
ConfirmInput ==
    /\ Len(stack) = 1 /\ Blocked("confirm_input")
    /\ \E res \in Lines :
          /\ IF ConfirmTakesDefault(Top, res)
             THEN Settle(Return(Top.default, 0))
             ELSE LET asked == YesNoStart(BoolV(TRUE)) IN
                  /\ stack' = <<[Top EXCEPT !.pc = "L103", !.res = res], asked.frame>>
                  /\ result' = NoResult
                  /\ nout' = nout + asked.out
          /\ Consume(res)
    /\ UNCHANGED <<d, hist, call, fs, fs0, lastDump, ndumps>>

\* A line arrives in the yes_no called at L103.
ConfirmAnswer ==
    /\ Len(stack) = 2 /\ Blocked("yes_no") /\ stack[1].fn = "confirm_input"
    /\ \E line \in Lines :
          LET o == YesNoLine(Top, line) IN
          /\ IF o.kind = "block"
             THEN /\ stack' = <<stack[1], o.frame>>
                  /\ result' = NoResult
                  /\ nout' = nout + o.out
             ELSE Settle(ConfirmAfterYesNo(stack[1], o.val))
          /\ Consume(line)
    /\ UNCHANGED <<d, hist, call, fs, fs0, lastDump, ndumps>>

CallDump ==
    /\ Idle
    /\ ndumps < MaxDumps
    /\ \E data \in Values, path \in Paths, overwrite \in BOOLEAN :
          /\ call' = [fn |-> "dump", data |-> data, path |-> path,
                      overwrite |-> overwrite]
          /\ IF DumpAsks(fs, path, overwrite)
             THEN LET asked == PickStart(Menu, -1, TRUE, TRUE) IN
                  /\ stack' = <<[fn |-> "dump", pc |-> "L144", data |-> data,
                                 path |-> path], asked.frame>>
                  /\ result' = NoResult
                  /\ nout' = nout + asked.out
                  /\ UNCHANGED <<fs, lastDump>>
             ELSE LET w == DumpWrite(fs, data, path) IN
                  /\ Settle(Return(NoneV, 0))
                  /\ fs' = w.fs
                  /\ lastDump' = [path |-> path, data |-> data, written |-> TRUE]
    /\ ndumps' = ndumps + 1
    /\ UNCHANGED <<d, hist, fs0, nread, last>>

\* A line arrives in the pick_from_list called at L144.
DumpChoice ==
    /\ Len(stack) = 2 /\ Blocked("pick_from_list") /\ stack[1].fn = "dump"
    /\ \E line \in Lines :
          LET o == PickLine(Top, line)
              w == DumpAfterChoice(fs, o.val, stack[1].data, stack[1].path)
          IN
          /\ CASE o.kind = "block" ->
                    /\ stack' = <<stack[1], o.frame>>
                    /\ result' = NoResult
                    /\ nout' = nout + o.out
                    /\ UNCHANGED <<fs, lastDump>>
               [] o.kind = "raise" ->
                    /\ Settle(o)
                    /\ UNCHANGED <<fs, lastDump>>
               [] OTHER ->
                    /\ Settle(Return(NoneV, 0))
                    /\ fs' = w.fs
                    /\ lastDump' = IF w.wrote
                                   THEN [path |-> stack[1].path, data |-> stack[1].data,
                                         written |-> TRUE]
                                   ELSE lastDump
          /\ Consume(line)
    /\ UNCHANGED <<d, hist, call, fs0, ndumps>>

CallLoad ==
    /\ Idle
    /\ \E path \in Paths :
          /\ call' = [fn |-> "load", path |-> path]
          /\ Settle(LoadOutcome(fs, path))
    /\ UNCHANGED <<d, hist, fs, fs0, lastDump, ndumps, nread, last>>

\* The caller takes the result; the next call starts from the filesystem as it is.
Finish ==
    /\ Done
    /\ call' = NoCall
    /\ result' = NoResult
    /\ fs0' = fs
    /\ nread' = 0
    /\ nout' = 0
    /\ last' = <<>>
    /\ UNCHANGED <<d, hist, stack, fs, lastDump, ndumps>>

\* ---------------------------------------------------------- specifications

\* The file a run may find at `path`: a JSON string naming the path.
OldDoc(path) == JString(path)
InitialFS == {[p \in S |-> OldDoc(p)] : S \in SUBSET {PathOf(k) : k \in 0..(MaxOld + 1)}}

InitWith(fsys) ==
    /\ call = NoCall
    /\ stack = <<>>
    /\ result = NoResult
    /\ fs = fsys
    /\ fs0 = fsys
    /\ lastDump = NoDump
    /\ ndumps = 0
    /\ nread = 0
    /\ nout = 0
    /\ last = <<>>
    /\ d = [k \in {} |-> <<>>]
    /\ hist = <<>>

\* The prompts, on an empty filesystem.
Init == InitWith([p \in {} |-> JNull])

Next ==
    \/ CallYesNo
    \/ YesNoInput
    \/ CallPick
    \/ PickInput
    \/ CallTyped
    \/ TypedInput
    \/ CallConfirm
    \/ ConfirmInput
    \/ ConfirmAnswer
    \/ Finish

Spec == Init /\ [][Next]_vars

\* dump and load, on a filesystem that may hold files already.
InitFile == \E fsys \in InitialFS : InitWith(fsys)

NextFile ==
    \/ CallDump
    \/ DumpChoice
    \/ CallLoad
    \/ Finish

SpecFile == InitFile /\ [][NextFile]_vars

\* ------------------------------------------------------------------ claims

DumpDone == call.fn = "dump" /\ Done
\* dump found a file at its path and was not told to overwrite it.
Conflict == ~call.overwrite /\ exists(fs0, call.path)
\* The line that ended the menu was the number k.
Chose(k) == IntParses(last) /\ IntOf(last) = k
OldPath == call.path \o <<"_old">>

\* C1: when dump finds a file at its path (overwrite false) and the user picks
\* entry 3 of the menu ("Do nothing"), the filesystem on return is what it was
\* at the call: nothing written, created, renamed or removed.
C1_AbortWritesNothing ==
    (DumpDone /\ Conflict /\ Chose(3)) => fs = fs0

\* C2: when dump finds a file at its path (overwrite false) and the user picks
\* entry 1 ("Append with '_old'"), then on return path + "_old" holds what path
\* held, path holds the dumped data, and every content that existed is still
\* stored somewhere.
C2_RenameKeepsPrevious ==
    (DumpDone /\ Conflict /\ Chose(1)) =>
        /\ exists(fs, OldPath)
        /\ fs[OldPath] = fs0[call.path]
        /\ exists(fs, call.path)
        /\ fs[call.path] = Encode(call.data)
        /\ \A p \in DOMAIN fs0 : \E q \in DOMAIN fs : fs[q] = fs0[p]

\* A load of the path the most recent dump wrote has returned or raised.
LoadAfterDump ==
    /\ call.fn = "load" /\ Done
    /\ lastDump.written /\ lastDump.path = call.path

\* Values that JSON represents as they are: None, booleans, numbers other than
\* NaN, strings, lists of such values and dicts with string keys and such values.
RECURSIVE JsonNative(_)
JsonNative(v) ==
    CASE v.ty \in {"NoneType", "bool", "int", "float", "str"} -> ~IsNaN(v)
      [] v.ty = "list" -> \A i \in 1..Len(v.items) : JsonNative(v.items[i])
      [] v.ty = "dict" ->
            \A i \in 1..Len(v.items) :
                /\ v.items[i].items[1].ty = "str"
                /\ JsonNative(v.items[i].items[2])
      [] OTHER -> FALSE

\* C3 as stated: after a dump(v, path) that wrote, load(path) returns a value
\* equal to v, for every JSON-serializable v.
C3_RoundTripAnyValue ==
    LoadAfterDump => result.kind = "return" /\ PyEq(result.val, lastDump.data)

\* C3 amended: after a dump(v, path) that wrote, load(path) returns a value equal
\* to v whenever v is built from None, booleans, numbers other than NaN, strings,
\* lists and string-keyed dicts.
C3_RoundTripNative ==
    (LoadAfterDump /\ JsonNative(lastDump.data)) =>
        result.kind = "return" /\ PyEq(result.val, lastDump.data)

C3_Witness ==
    /\ LoadAfterDump
    /\ lastDump.data.ty = "dict"
    /\ JsonNative(lastDump.data)
    /\ result.kind = "return"

\* C4: dump with overwrite=True on an existing path reads no line, prints nothing
\* and never blocks; on return path holds the data, no file was added or removed
\* and every other file holds what it held.
C4_OverwriteSilently ==
    (call.fn = "dump" /\ call.overwrite /\ exists(fs0, call.path)) =>
        /\ Done
        /\ result.kind = "return"
        /\ nread = 0
        /\ nout = 0
        /\ DOMAIN fs = DOMAIN fs0
        /\ fs[call.path] = Encode(call.data)
        /\ \A q \in DOMAIN fs0 \ {call.path} : fs[q] = fs0[q]

C4_Witness ==
    /\ DumpDone /\ call.overwrite /\ exists(fs0, call.path)
    /\ fs[call.path] # fs0[call.path]
    /\ DOMAIN fs0 \ {call.path} # {}

PickCall == call.fn = "pick_from_list"
\* default_index is set and is no index of the list.
PickBadDefault ==
    call.default_index # -1 /\ call.default_index \notin 0..(Len(call.l) - 1)

\* C5: pick_from_list with a default_index that is set and is no index of the
\* list ends with an IndexError, nothing printed and no line read, for every
\* list length and also when the single-element shortcut would apply.
C5_BadDefaultRaisesFirst ==
    (PickCall /\ PickBadDefault) =>
        /\ Done
        /\ result.kind = "raise"
        /\ result.exc = "IndexError"
        /\ nout = 0
        /\ nread = 0

C5_Witness ==
    /\ PickCall /\ PickBadDefault /\ Done
    /\ Len(call.l) = 1
    /\ call.auto_return_single_element

\* C6: with a valid or unset default_index, a one-element list and
\* auto_return_single_element=True, pick_from_list returns the element (index 0
\* when return_element is False) with nothing printed and no line read; with
\* auto_return_single_element=False the same list is printed and prompted for,
\* and the call returns only after reading a line.
C6_SingleElementShortcut ==
    (PickCall /\ ~PickBadDefault /\ Len(call.l) = 1) =>
        IF call.auto_return_single_element
        THEN /\ Done
             /\ result.kind = "return"
             /\ result.val = IF call.return_element THEN call.l[1] ELSE IntV(0)
             /\ nout = 0
             /\ nread = 0
        ELSE /\ nout >= 3
             /\ Done => nread >= 1

C6_Witness ==
    /\ PickCall /\ Len(call.l) = 1 /\ call.auto_return_single_element
    /\ call.default_index = 0
    /\ ~call.return_element
    /\ Done

\* The lines the claim says pick_from_list accepts, and the index each selects.
PickAccepts(line) ==
    \/ IntParses(line) /\ IntOf(line) \in 1..Len(call.l)
    \/ line = <<>> /\ call.default_index # -1
PickIndex(line) == IF line = <<>> THEN call.default_index ELSE IntOf(line) - 1

\* C7: for a non-empty list, once a line has been read: if the latest line is a
\* decimal number in 1..len(l), or is empty with a default set, the call has
\* returned l[index] (or the index) for that line's index, which is in
\* 0..len(l)-1; after any other line the call is prompting again with no result.
C7_ReturnsAtFirstAcceptedLine ==
    (PickCall /\ ~PickBadDefault /\ Len(call.l) >= 1 /\ nread >= 1) =>
        IF PickAccepts(last)
        THEN /\ Done
             /\ result.kind = "return"
             /\ PickIndex(last) \in 0..(Len(call.l) - 1)
             /\ result.val = IF call.return_element THEN call.l[PickIndex(last) + 1]
                             ELSE IntV(PickIndex(last))
        ELSE /\ stack # <<>>
             /\ result.kind = "none"

\* C8: once yes_no has read a line: if the latest line, lower-cased, is y, ye or
\* yes the call has returned True; if it is n or no, False; if it is empty and a
\* default is set (True or False), the default; after any other line the call is
\* prompting again, one prompt per line read plus the first.
C8_YesNoReturnsAtFirstAnswer ==
    (call.fn = "yes_no" /\ nread >= 1) =>
        LET answer == lower(last) IN
        CASE answer \in yes ->
                Done /\ result.kind = "return" /\ result.val = BoolV(TRUE)
          [] answer \in no ->
                Done /\ result.kind = "return" /\ result.val = BoolV(FALSE)
          [] answer = <<>> /\ call.default.ty # "NoneType" ->
                Done /\ result.kind = "return" /\ result.val = call.default
          [] OTHER ->
                /\ stack # <<>>
                /\ result.kind = "none"
                /\ nout = nread + 1

C8_Witness ==
    /\ call.fn = "yes_no" /\ Done
    /\ nread >= 2
    /\ last = <<>>
    /\ call.default = BoolV(FALSE)

\* A step of a confirm_input call in progress.
ConfirmStep == call.fn = "confirm_input" /\ call' = call /\ stack # <<>>
\* The line just read answers yes to yes_no(..., default=True).
AnsweredYes == lower(last') \in yes \/ last' = <<>>

\* C9: confirm_input never raises; it returns the default only on an empty first
\* line with a default, no confirmation asked; a text line read becomes the line
\* under confirmation; the call returns that line only on a yes for it; on a no
\* it asks for a fresh text line, and an unrecognized answer changes nothing.
C9_ConfirmedLineReturned ==
    [][ ConfirmStep =>
          /\ result'.kind # "raise"
          /\ (Len(stack) = 1 /\ stack' = <<>>) =>
                /\ Top.pc = "L101" /\ last' = <<>> /\ Truthy(call.default)
                /\ result'.kind = "return" /\ result'.val = call.default
                /\ nout' = nout
          /\ (Len(stack) = 1 /\ stack' # <<>>) =>
                /\ Len(stack') = 2 /\ stack'[1].res = last'
                /\ result'.kind = "none"
          /\ (Len(stack) = 2 /\ stack' = <<>>) =>
                /\ AnsweredYes
                /\ result'.kind = "return" /\ result'.val = StrV(stack[1].res)
          /\ (Len(stack) = 2 /\ Len(stack') = 1) =>
                /\ lower(last') \in no
                /\ stack'[1].pc = "L104"
                /\ result'.kind = "none"
          /\ (Len(stack) = 2 /\ Len(stack') = 2) =>
                /\ ~AnsweredYes /\ lower(last') \notin no
                /\ stack'[1] = stack[1]
      ]_vars

\* A line was rejected, a fresh one entered and confirmed, and returned.
C9_Witness ==
    /\ call.fn = "confirm_input" /\ Done
    /\ nread >= 4
    /\ result.kind = "return"
    /\ result.val = StrV(<<"x">>)

\* C10: typed_input with a default other than None (0 and 0.0 included), of the
\* target type, has returned that default after an empty first line, without
\* prompting again.
C10_EmptyLineReturnsDefault ==
    ( /\ call.fn = "typed_input"
      /\ call.default.ty # "NoneType" /\ call.t = TypeOfValue(call.default)
      /\ nread = 1 /\ last = <<>> ) =>
        /\ Done
        /\ result.kind = "return"
        /\ result.val = call.default
        /\ nout = 1

\* C11: typed_input with the float type accepts the line "1,5" on the line it is
\* read and returns 1.5, the comma having been replaced by a period.
C11_CommaAcceptedAsFloat ==
    ( /\ call.fn = "typed_input" /\ call.t = "float"
      /\ nread >= 1 /\ last = <<"1", ",", "5">> ) =>
        /\ Done
        /\ result.kind = "return"
        /\ result.val = FloatV(15)

Prompts == {"yes_no", "pick_from_list", "confirm_input", "typed_input"}

\* C12: a prompt that has read a line has not raised: whatever the user types,
\* the call either returned or is prompting again.
C12_NoRaiseOnUserInput ==
    (call.fn \in Prompts /\ nread >= 1) =>
        /\ result.kind # "raise"
        /\ result.kind = "none" => stack # <<>>

\* C20: pick_from_list with an empty list never returns a value: with a default
\* index set it has raised IndexError, and with none set it is prompting, with no
\* result, whatever lines were read; while a call with a non-empty list is
\* prompting, some input line makes it return.
C20_EmptyListNeverReturns ==
    PickCall =>
        /\ (Len(call.l) = 0 /\ call.default_index # -1) =>
              Done /\ result.kind = "raise" /\ result.exc = "IndexError"
        /\ (Len(call.l) = 0 /\ call.default_index = -1) =>
              stack # <<>> /\ result.kind = "none"
        /\ (Len(call.l) > 0 /\ stack # <<>>) =>
              \E line \in Lines : PickLine(Top, line).kind = "return"

\* --------------------------------------------- dict_append and dict_remove

MaxOps == 4       \* dict_append and dict_remove calls in one run
Keys == {"k1", "k2"}
Vals == {1, 2}

\* dict_append: d[k].append(v), or d[k] = [v] on KeyError.
dict_append(dd, k, v) ==
    IF k \in DOMAIN dd THEN [dd EXCEPT ![k] = Append(@, v)]
    ELSE [q \in DOMAIN dd \cup {k} |-> IF q = k THEN <<v>> ELSE dd[q]]

\* list.index(v): the position of the first element equal to v.
FirstIndex(l, v) == CHOOSE i \in 1..Len(l) : l[i] = v /\ \A j \in 1..(i - 1) : l[j] # v

\* ListRemove taking out every element equal to v.
ListRemoveAll(l, v) == SelectSeq(l, LAMBDA x : x # v)

\* ListRemove taking out the last element equal to v.
ListRemoveLast(l, v) ==
    LET i == CHOOSE i \in 1..Len(l) : l[i] = v /\ \A j \in (i + 1)..Len(l) : l[j] # v
    IN SubSeq(l, 1, i - 1) \o SubSeq(l, i + 1, Len(l))

\* list.remove(v) on a list that holds v.
ListRemove(l, v) ==
    LET i == FirstIndex(l, v) IN SubSeq(l, 1, i - 1) \o SubSeq(l, i + 1, Len(l))

\* del d[k]
DelKey(dd, k) == [q \in DOMAIN dd \ {k} |-> dd[q]]

\* dict_remove without the test for an empty list.
dict_removeKeepsKey(dd, k, v) ==
    IF k \notin DOMAIN dd THEN [d |-> dd, exc |-> "KeyError"]
    ELSE IF \A i \in 1..Len(dd[k]) : dd[k][i] # v THEN [d |-> dd, exc |-> "ValueError"]
    ELSE [d |-> [dd EXCEPT ![k] = ListRemove(@, v)], exc |-> ""]

\* dict_remove filtering the list instead of calling list.remove.
dict_removeFiltering(dd, k, v) ==
    IF k \notin DOMAIN dd THEN [d |-> dd, exc |-> "KeyError"]
    ELSE LET removed == [dd EXCEPT ![k] = ListRemoveAll(@, v)] IN
         [d |-> IF Len(removed[k]) = 0 THEN DelKey(removed, k) ELSE removed, exc |-> ""]

\* dict_remove: the dict afterwards and the exception raised ("" when none).
dict_remove(dd, k, v) ==
    IF k \notin DOMAIN dd THEN [d |-> dd, exc |-> "KeyError"]
    ELSE IF \A i \in 1..Len(dd[k]) : dd[k][i] # v THEN [d |-> dd, exc |-> "ValueError"]
    ELSE LET removed == [dd EXCEPT ![k] = ListRemove(@, v)] IN
         [d |-> IF Len(removed[k]) = 0 THEN DelKey(removed, k) ELSE removed, exc |-> ""]

OtherVars == <<call, stack, result, fs, fs0, lastDump, ndumps, nread, nout, last>>

DictAppend ==
    /\ Len(hist) < MaxOps
    /\ \E k \in Keys, v \in Vals :
          /\ d' = dict_append(d, k, v)
          /\ hist' = Append(hist, [op |-> "append", k |-> k, v |-> v, exc |-> ""])
    /\ UNCHANGED OtherVars

DictRemove ==
    /\ Len(hist) < MaxOps
    /\ \E k \in Keys, v \in Vals :
          LET o == dict_remove(d, k, v) IN
          /\ d' = o.d
          /\ hist' = Append(hist, [op |-> "remove", k |-> k, v |-> v, exc |-> o.exc])
    /\ UNCHANGED OtherVars

NextDict ==
    \/ DictAppend
    \/ DictRemove

\* dict_append and dict_remove on a dict that starts empty.
SpecDict == Init /\ [][NextDict]_vars

\* The call made by the step being taken.
LastOp == hist'[Len(hist')]
Holds(l, v) == \E i \in 1..Len(l) : l[i] = v

\* C13: dict_remove(d, k, v) raises KeyError when k is no key of d and ValueError
\* when k is a key and v does not occur in d[k]; a dict_remove that raises leaves
\* d as it was.
C13_RemoveFailsCleanly ==
    [][ (hist' # hist /\ LastOp.op = "remove") =>
          /\ LastOp.k \notin DOMAIN d => LastOp.exc = "KeyError"
          /\ (LastOp.k \in DOMAIN d /\ ~Holds(d[LastOp.k], LastOp.v)) =>
                LastOp.exc = "ValueError"
          /\ LastOp.exc # "" => d' = d
      ]_vars

\* A removal failed on a value missing from a key that holds another value.
C13_Witness ==
    /\ hist # <<>>
    /\ hist[Len(hist)].op = "remove"
    /\ hist[Len(hist)].exc = "ValueError"
    /\ hist[Len(hist)].k \in DOMAIN d

\* ------------------------------------------------------------------ folds

MaxFold == 3      \* longest list handed to foldl and foldr
Elems == {IntV(1), IntV(2), IntV(3)}
SeqsUpTo(S, n) == UNION {[1..k -> S] : k \in 0..n}

\* The functions handed to the folds: a base function, or it with its two
\* arguments exchanged.
\*   pair(x, y) = (x, y)    sub(x, y) = x - y    snoc(x, y) = x + [y]
Base(name, x, y) ==
    CASE name = "pair" -> TupleV(<<x, y>>)
      [] name = "sub" -> IntV(x.n - y.n)
      [] OTHER -> ListV(Append(x.items, y))
Fn(name, flipped) == [name |-> name, flipped |-> flipped]
Flip(f) == [f EXCEPT !.flipped = ~@]
\* f(x, y)
Apply(f, x, y) == IF f.flipped THEN Base(f.name, y, x) ELSE Base(f.name, x, y)

\* for b in lb: a = f(a, b), from the i-th element on.
RECURSIVE foldlFrom(_, _, _, _)
foldlFrom(f, a, lb, i) ==
    IF i > Len(lb) THEN a ELSE foldlFrom(f, Apply(f, a, lb[i]), lb, i + 1)

\* foldl calling f(b, a) instead of f(a, b).
RECURSIVE foldlSwappedFrom(_, _, _, _)
foldlSwappedFrom(f, a, lb, i) ==
    IF i > Len(lb) THEN a ELSE foldlSwappedFrom(f, Apply(f, lb[i], a), lb, i + 1)
foldlSwapped(f, a, lb) == foldlSwappedFrom(f, a, lb, 1)

foldl(f, a, lb) == foldlFrom(f, a, lb, 1)

Reverse(s) == [i \in 1..Len(s) |-> s[Len(s) + 1 - i]]

\* foldr written as a left fold over the reversed list, f's arguments not exchanged.
foldrReversedLeft(f, b, la) == foldl(f, b, Reverse(la))

RECURSIVE foldr(_, _, _)
foldr(f, b, la) ==
    IF Len(la) = 0 THEN b ELSE Apply(f, la[1], foldr(f, b, Tail(la)))

\* f and the start value, for a fold whose accumulator is f's first argument.
AccFirst ==
    { [f |-> Fn("pair", FALSE), start |-> TupleV(<<>>)],
      [f |-> Fn("pair", TRUE), start |-> NoneV],
      [f |-> Fn("sub", FALSE), start |-> IntV(10)],
      [f |-> Fn("sub", TRUE), start |-> IntV(0)],
      [f |-> Fn("snoc", FALSE), start |-> ListV(<<>>)],
      [f |-> Fn("snoc", FALSE), start |-> ListV(<<IntV(0)>>)] }

CallFoldl ==
    /\ Idle
    /\ \E in \in AccFirst, lb \in SeqsUpTo(Elems, MaxFold) :
          /\ call' = [fn |-> "foldl", f |-> in.f, start |-> in.start, seq |-> lb]
          /\ Settle(Return(foldl(in.f, in.start, lb), 0))
    /\ UNCHANGED <<d, hist, fs, fs0, lastDump, ndumps, nread, last>>

CallFoldr ==
    /\ Idle
    /\ \E in \in AccFirst, la \in SeqsUpTo(Elems, MaxFold) :
          /\ call' = [fn |-> "foldr", f |-> Flip(in.f), start |-> in.start, seq |-> la]
          /\ Settle(Return(foldr(Flip(in.f), in.start, la), 0))
    /\ UNCHANGED <<d, hist, fs, fs0, lastDump, ndumps, nread, last>>

\* -------------------------------------------------------------- interleave

MaxSeqs == 3      \* most lists handed to interleave
MaxItems == 2     \* longest list handed to interleave

Shortest(l) ==
    IF Len(l) = 0 THEN 0
    ELSE CHOOSE m \in {Len(l[j]) : j \in 1..Len(l)} : \A j \in 1..Len(l) : m <= Len(l[j])

\* zip(*l): one tuple per position that every list has; none for no list.
zip(l) == [i \in 1..Shortest(l) |-> [j \in 1..Len(l) |-> l[j][i]]]

\* [x for t in ts for x in t]
RECURSIVE Flat(_)
Flat(ts) == IF Len(ts) = 0 THEN <<>> ELSE Head(ts) \o Flat(Tail(ts))

\* interleave putting the truncated lists one after the other.
interleaveListwise(l) == Flat([j \in 1..Len(l) |-> SubSeq(l[j], 1, Shortest(l))])

interleave(l) == Flat(zip(l))

CallInterleave ==
    /\ Idle
    /\ \E l \in SeqsUpTo(SeqsUpTo({IntV(1), IntV(2)}, MaxItems), MaxSeqs) :
          /\ call' = [fn |-> "interleave", l |-> l]
          /\ Settle(Return(ListV(interleave(l)), 0))
    /\ UNCHANGED <<d, hist, fs, fs0, lastDump, ndumps, nread, last>>

NextPure ==
    \/ CallFoldl
    \/ CallFoldr
    \/ CallInterleave
    \/ Finish

\* The pure functions, each applied to inputs drawn from the sets above.
SpecPure == Init /\ [][NextPure]_vars

Called(fn) == call.fn = fn /\ Done

\* f(x0, f(x1, ... f(xn-1, b))), built from the last element backwards.
RECURSIVE NestFrom(_, _, _, _)
NestFrom(f, acc, la, i) ==
    IF i = 0 THEN acc ELSE NestFrom(f, Apply(f, la[i], acc), la, i - 1)

\* C14: foldr(f, b, seq) is f(x0, f(x1, ... f(xn-1, b))): b for the empty list;
\* for f = pair and three elements the tuple (x0, (x1, (x2, b))); with an f that
\* appends its first argument to the list in its second, the elements in reverse
\* order, each once (f applied n times, first to the last element); and always
\* equal to the left fold of f with exchanged arguments over the reversed list.
C14_FoldrRightAssociative ==
    Called("foldr") =>
        LET f == call.f
            b == call.start
            la == call.seq
            pair(x, y) == TupleV(<<x, y>>)
        IN
        /\ result.kind = "return"
        /\ result.val = NestFrom(f, b, la, Len(la))
        /\ Len(la) = 0 => result.val = b
        /\ (f = Fn("pair", FALSE) /\ Len(la) = 3) =>
              result.val = pair(la[1], pair(la[2], pair(la[3], b)))
        /\ f = Fn("snoc", TRUE) => result.val.items = b.items \o Reverse(la)
        /\ result.val = foldl(Flip(f), b, Reverse(la))

C14_Witness ==
    /\ Called("foldr")
    /\ call.f = Fn("sub", FALSE)
    /\ call.seq = <<IntV(3), IntV(1), IntV(2)>>
    /\ result.val = IntV(3 - (1 - (2 - 0)))

\* The recursive definition: foldl(f, f(a, seq[0]), seq[1:]), and a for [].
RECURSIVE foldlRecursive(_, _, _)
foldlRecursive(f, a, lb) ==
    IF Len(lb) = 0 THEN a ELSE foldlRecursive(f, Apply(f, a, lb[1]), Tail(lb))

\* C15: foldl(f, a, seq) equals the recursive left fold, a for the empty list;
\* folding list-append from a list yields that list followed by the elements in
\* order, each once, so from the empty list it rebuilds seq.
C15_FoldlIsLeftFold ==
    Called("foldl") =>
        /\ result.kind = "return"
        /\ result.val = foldlRecursive(call.f, call.start, call.seq)
        /\ Len(call.seq) = 0 => result.val = call.start
        /\ call.f = Fn("snoc", FALSE) =>
              result.val = ListV(call.start.items \o call.seq)

C15_Witness ==
    /\ Called("foldl")
    /\ call.f = Fn("sub", FALSE)
    /\ call.seq = <<IntV(3), IntV(1), IntV(2)>>
    /\ result.val = IntV(((10 - 3) - 1) - 2)

\* C16: interleave of n lists returns n * min(len) elements, the one at position
\* i*n + j being element i of list j, so nothing past the shortest list's length
\* appears; for no list, or when some list is empty, it returns the empty list.
C16_InterleaveRoundRobin ==
    Called("interleave") =>
        LET l == call.l
            n == Len(l)
            out == result.val.items
            m == IF n = 0 THEN 0
                 ELSE CHOOSE m \in 0..MaxItems + 1 :
                        /\ \A j \in 1..n : m <= Len(l[j])
                        /\ \E j \in 1..n : m = Len(l[j])
        IN
        /\ result.kind = "return"
        /\ result.val.ty = "list"
        /\ Len(out) = n * m
        /\ \A i \in 0..(m - 1), j \in 0..(n - 1) : out[i * n + j + 1] = l[j + 1][i + 1]
        /\ (n = 0 \/ \E j \in 1..n : Len(l[j]) = 0) => out = <<>>

C16_Witness ==
    /\ Called("interleave")
    /\ call.l = << <<IntV(1), IntV(2)>>, <<IntV(1)>>, <<IntV(2), IntV(1)>> >>
    /\ result.val.items = <<IntV(1), IntV(1), IntV(2)>>

\* The calls of hist that name key k: appends, and removals that did not raise.
Appends(k) == {i \in 1..Len(hist) : hist[i].op = "append" /\ hist[i].k = k}
Removals(k) ==
    {i \in 1..Len(hist) : hist[i].op = "remove" /\ hist[i].k = k /\ hist[i].exc = ""}

\* C17: after any dict_append and dict_remove calls on a dict that started
\* empty, every key of the dict maps to a non-empty list, and a key is in the
\* dict exactly when more appends than successful removals named it.
C17_KeysHoldNonEmptyLists ==
    /\ \A k \in DOMAIN d : Len(d[k]) > 0
    /\ \A k \in Keys :
          k \in DOMAIN d <=> Cardinality(Appends(k)) > Cardinality(Removals(k))

\* A key emptied by removals is gone, after a removal that failed.
C17_Witness ==
    /\ "k1" \notin DOMAIN d
    /\ Cardinality(Appends("k1")) = 1
    /\ Cardinality(Removals("k1")) = 1
    /\ "k2" \in DOMAIN d
    /\ \E i \in 1..Len(hist) : hist[i].exc = "ValueError"

\* The reference list: v put at the end, or the first v taken out.
RECURSIVE WithoutFirst(_, _)
WithoutFirst(l, v) ==
    IF Len(l) = 0 THEN <<>>
    ELSE IF Head(l) = v THEN Tail(l)
    ELSE <<Head(l)>> \o WithoutFirst(Tail(l), v)

\* The reference list of key k after the first n calls of hist.
RECURSIVE Reference(_, _)
Reference(k, n) ==
    IF n = 0 THEN <<>>
    ELSE IF hist[n].k # k THEN Reference(k, n - 1)
    ELSE IF hist[n].op = "append" THEN Append(Reference(k, n - 1), hist[n].v)
    ELSE WithoutFirst(Reference(k, n - 1), hist[n].v)

\* The list at key k, empty when k is no key.
Entry(k) == IF k \in DOMAIN d THEN d[k] ELSE <<>>

\* C18: after any dict_append and dict_remove calls, the list at each key is the
\* reference list built from the calls naming that key alone: each appended value
\* at the end, each removal taking out the first occurrence only.  Calls naming
\* another key do not enter a key's reference list, so they leave its entry alone.
C18_ListsFollowReference ==
    \A k \in Keys : Entry(k) = Reference(k, Len(hist))

\* The first of two equal values was removed; the later one kept its place.
C18_Witness ==
    /\ Len(hist) = 4
    /\ hist[4] = [op |-> "remove", k |-> "k1", v |-> 1, exc |-> ""]
    /\ Entry("k1") = <<2, 1>>

\* ------------------------------------------------------ dump's rename chain

\* A file that is no part of any chain of "f".
Other == <<"g">>

\* path followed by i conflict suffixes.
Suffixed(path, i) == path \o [j \in 1..i |-> "_old"]

\* rec_rename(path) is entered: new_path is computed, its existence not yet tested.
RecFrame(path) == [fn |-> "rec_rename", path |-> path, pc |-> "test"]

InRename == stack # <<>> /\ Top.fn = "rec_rename"

CallRecRename ==
    /\ Idle
    /\ \E path \in Paths :
          /\ call' = [fn |-> "rec_rename", path |-> path]
          /\ stack' = <<RecFrame(path)>>
    /\ UNCHANGED <<d, hist, result, fs, fs0, lastDump, ndumps, nread, nout, last>>

\* A descent that forgets the recursion and goes on to the rename.
RecDescendSkipped ==
    /\ InRename
    /\ Top.pc = "test"
    /\ exists(fs, Suffixed(Top.path, 1))
    /\ stack' = [stack EXCEPT ![Len(stack)].pc = "rename"]
    /\ UNCHANGED <<d, hist, call, result, fs, fs0, lastDump, ndumps, nread, nout, last>>

\* if os.path.exists(new_path): rec_rename(new_path)
RecDescend ==
    /\ InRename
    /\ Top.pc = "test"
    /\ exists(fs, Suffixed(Top.path, 1))
    /\ stack' = Append([stack EXCEPT ![Len(stack)].pc = "rename"],
                       RecFrame(Suffixed(Top.path, 1)))
    /\ UNCHANGED <<d, hist, call, result, fs, fs0, lastDump, ndumps, nread, nout, last>>

\* os.rename(path, new_path), and the return to the caller; a missing path
\* raises through every caller.
RecRename ==
    /\ InRename
    /\ Top.pc = "rename" \/ ~exists(fs, Suffixed(Top.path, 1))
    /\ IF exists(fs, Top.path)
       THEN /\ fs' = rename(fs, Top.path, Suffixed(Top.path, 1))
            /\ stack' = SubSeq(stack, 1, Len(stack) - 1)
            /\ result' = IF Len(stack) = 1 THEN ResultOf(Return(NoneV, 0)) ELSE result
       ELSE /\ fs' = fs
            /\ stack' = <<>>
            /\ result' = ResultOf(Raise("FileNotFoundError", 0))
    /\ UNCHANGED <<d, hist, call, fs0, lastDump, ndumps, nread, nout, last>>

\* The filesystems rec_rename may find: any files of the chain, and another file.
RenameFS ==
    {[p \in S |-> OldDoc(p)] : S \in SUBSET ({PathOf(k) : k \in 0..(MaxOld + 1)} \cup {Other})}

InitRename == \E fsys \in RenameFS : InitWith(fsys)

NextRename ==
    \/ CallRecRename
    \/ RecDescend
    \/ RecRename
    \/ Finish

SpecRename == InitRename /\ [][NextRename]_vars

\* The number k of the last file of the chain that starts at path.
RECURSIVE ChainLen(_, _)
ChainLen(fsys, path) ==
    IF exists(fsys, Suffixed(path, 1)) THEN 1 + ChainLen(fsys, Suffixed(path, 1)) ELSE 0

\* rec_rename(path) is over, having started with a file at path.
RenameDone == call.fn = "rec_rename" /\ Done /\ exists(fs0, call.path)

\* Every file of the chain is one suffix further, and nothing else changed.
ChainShifted ==
    LET path == call.path
        k == ChainLen(fs0, path)
        chain == {Suffixed(path, i) : i \in 0..(k + 1)}
    IN /\ result.kind = "return"
       /\ \A i \in 0..k :
             /\ exists(fs, Suffixed(path, i + 1))
             /\ fs[Suffixed(path, i + 1)] = fs0[Suffixed(path, i)]
       /\ ~exists(fs, path)
       /\ (DOMAIN fs) \ chain = (DOMAIN fs0) \ chain
       /\ \A q \in (DOMAIN fs) \ chain : fs[q] = fs0[q]

\* A rename of the running chain goes to a name that is free.
RenameToFreeName ==
    (call.fn = "rec_rename" /\ exists(fs0, call.path) /\ InRename /\ fs' # fs)
        => ~exists(fs, Suffixed(Top.path, 1))

\* C19: with files at path, path+'_old', ..., path+k*'_old' and none one suffix
\* further, rec_rename(path) leaves the content of each of them one suffix
\* further, leaves nothing at path, leaves every other file as it was, and never
\* renames to a name that exists at that moment.
C19_ChainNeverDestroysFile ==
    /\ [](RenameDone => ChainShifted)
    /\ [][RenameToFreeName]_vars

\* A chain of three files was shifted beside a file outside it.
C19_Witness ==
    /\ RenameDone
    /\ call.path = PathOf(0)
    /\ ChainLen(fs0, call.path) = 2
    /\ exists(fs0, Other)
    /\ fs[PathOf(3)] = OldDoc(PathOf(2))
    /\ fs[PathOf(1)] = OldDoc(PathOf(0))

====
